---------------------------- MODULE Spec2Model ----------------------------
(***************************************************************************)
(* A model of the Premier League scraper (arnortumio/pl-scraper).          *)
(*                                                                         *)
(* src/main.py (lines 1-389) is the deployed program: main() runs one      *)
(* full_update (development) or starts the liveness web server and the     *)
(* scheduler loop (production).  src/pl_scraper.py is the earlier program  *)
(* of the same repository; its operations carry the prefix pl_.            *)
(*                                                                         *)
(* The fbref site, the Google Sheets backend, the wall clock and the       *)
(* `schedule` library's clock are the environment: every call into them    *)
(* draws its result with \E from a small set.                              *)
(***************************************************************************)
EXTENDS Integers, Sequences, FiniteSets, TLC

(***************************************************************************)
(* Bounds of the model.                                                    *)
(***************************************************************************)
\* full_update runs started in one behaviour (the scheduler loop is endless)
MaxRuns == 2
\* environment deviations in one behaviour: every answer of the site, of the
\* spreadsheet backend or of the clock other than the nominal one (a failed
\* call, a status other than 200, a page without its live table, a second
\* elapsing between two calls) counts one
MaxFaults == 1

(***************************************************************************)
(* Program constants.                                                      *)
(***************************************************************************)
\* main.py:249  if len(data_list) > 1000: data_list = data_list[:1000]
RowLimit == 1000

\* Python's None where a string is expected, and where an object is
NoneVal == "None"
None == [none |-> TRUE]

base_url == "https://fbref.com"
\* main.py:108, 145, 178
UrlTable == base_url \o "/en/comps/9/Premier-League-Stats"
UrlPlayer == base_url \o "/en/comps/9/stats/Premier-League-Stats"
UrlFixtures == base_url \o "/en/comps/9/schedule/Premier-League-Fixtures"

\* main.py:277, 281, 287, 293
sheet_name == "PL_Fantasy_Data"
WsTable == "League_Table"
WsPlayer == "Player_Stats"
WsFixtures == "Fixtures_Results"
WsNames == {WsTable, WsPlayer, WsFixtures}

\* pl_scraper.py:78-84, 89, 197: the statistics categories, their pages and
\* their tabs
stat_types == <<"standard", "shooting", "passing", "defense", "possession">>
StatSet == {stat_types[k] : k \in 1..Len(stat_types)}
StatUrl(stat_url) == base_url \o "/en/comps/9/" \o stat_url \o "/Premier-League-Stats"
StatTab(stat_name) == "Player_Stats_" \o stat_name

Urls == {UrlTable, UrlPlayer, UrlFixtures}
AllUrls == Urls \cup {StatUrl(t) : t \in StatSet}
AllTabs == WsNames \cup {StatTab(t) : t \in StatSet}

Min(S) == CHOOSE x \in S : \A y \in S : x <= y

(***************************************************************************)
(* Documents.  A document is the sequence of its nodes in document order.  *)
(* A node is a table element (identifier, classes, header rows, body rows) *)
(* or an HTML comment whose text is markup (`inner`, itself a sequence of  *)
(* nodes).  A header cell and a body cell are strings.                     *)
(***************************************************************************)
Tbl(id, cls, hdr, rows) ==
    [kind |-> "table", id |-> id, class |-> cls, hdr |-> hdr, rows |-> rows,
     inner |-> <<>>]

Cmt(inner) ==
    [kind |-> "comment", id |-> "", class |-> {}, hdr |-> <<>>, rows |-> <<>>,
     inner |-> inner]

\* BeautifulSoup(response.content, 'html.parser'): the parse tree keeps a
\* comment as one Comment node; its text is not parsed into elements.
BeautifulSoup(content) == content

\* soup.find('table', {'id': v}): the first table element, in document
\* order, whose id is v.  Comment nodes are not elements and are not entered.
FindById(soup, v) ==
    LET hits == {i \in 1..Len(soup) : soup[i].kind = "table" /\ soup[i].id = v}
    IN  IF hits = {} THEN None ELSE soup[Min(hits)]

\* soup.find('table', {'class': c}): the first table element one of whose
\* classes is c.
FindByClass(soup, c) ==
    LET hits == {i \in 1..Len(soup) : soup[i].kind = "table" /\ c \in soup[i].class}
    IN  IF hits = {} THEN None ELSE soup[Min(hits)]

(***************************************************************************)
(* pandas.  read_html(str(table))[0] raises when the table has no row at   *)
(* all ("No tables found"); otherwise the header rows become the columns   *)
(* (a MultiIndex of tuples when there are several header rows) and the     *)
(* body rows the data.                                                     *)
(***************************************************************************)
Raises == [raises |-> TRUE]

\* the label of column j: one segment per header row
ColumnLabel(hdr, j) == [k \in 1..Len(hdr) |-> hdr[k][j]]

read_html(table) ==
    IF table.hdr = <<>> /\ table.rows = <<>>
    THEN Raises
    ELSE IF table.hdr = <<>>
         THEN [multi |-> FALSE,
               columns |-> [j \in 1..Len(table.rows[1]) |-> ToString(j - 1)],
               rows |-> table.rows]
         ELSE [multi |-> Len(table.hdr) > 1,
               columns |-> [j \in 1..Len(table.hdr[1]) |->
                              IF Len(table.hdr) > 1
                              THEN ColumnLabel(table.hdr, j)
                              ELSE table.hdr[1][j]],
               rows |-> table.rows]

\* '_'.join(col) over the segments of one MultiIndex label, as the sequence
\* of its tokens seg1 _ seg2 ...
RECURSIVE Join(_)
Join(col) ==
    IF Len(col) = 0 THEN <<>>
    ELSE IF Len(col) = 1 THEN <<col[1]>>
    ELSE <<col[1], "_">> \o Join(Tail(col))

\* str.strip(): leading and trailing whitespace tokens are removed
RECURSIVE LStrip(_)
LStrip(s) == IF s # <<>> /\ Head(s) = " " THEN LStrip(Tail(s)) ELSE s

RECURSIVE RStrip(_)
RStrip(s) ==
    IF s # <<>> /\ s[Len(s)] = " " THEN RStrip(SubSeq(s, 1, Len(s) - 1)) ELSE s

Strip(s) == RStrip(LStrip(s))

\* the string a sequence of tokens spells
RECURSIVE Text(_)
Text(s) == IF s = <<>> THEN "" ELSE Head(s) \o Text(Tail(s))

\* main.py:124-125, 158-159
\*   if isinstance(df.columns, pd.MultiIndex):
\*       df.columns = ['_'.join(col).strip() for col in df.columns.values]
FlattenColumns(df) ==
    IF df.multi
    THEN [df EXCEPT !.multi = FALSE,
                    !.columns = [j \in 1..Len(df.columns) |->
                                    Text(Strip(Join(df.columns[j])))]]
    ELSE df

\* two decimal digits
Pad2(n) == IF n < 10 THEN "0" \o ToString(n) ELSE ToString(n)

\* datetime.now().strftime('%Y-%m-%d %H:%M:%S'), t seconds after 08:00:00
strftime(t) ==
    "2025-08-16 " \o Pad2(8 + (t \div 3600)) \o ":" \o Pad2((t \div 60) % 60)
                  \o ":" \o Pad2(t % 60)

\* a variant of AddColumn that sets the value in the first row only
AddColumnFirstRow(df, name, value) ==
    [df EXCEPT !.columns = df.columns \o <<IF df.multi THEN <<name, "">> ELSE name>>,
               !.rows = [i \in 1..Len(df.rows) |->
                            df.rows[i] \o <<IF i = 1 THEN value ELSE "">>]]

\* df[name] = value: one more column, the same value in every row
AddColumn(df, name, value) ==
    [df EXCEPT !.columns = df.columns \o <<IF df.multi THEN <<name, "">> ELSE name>>,
               !.rows = [i \in 1..Len(df.rows) |-> df.rows[i] \o <<value>>]]


(***************************************************************************)
(* The site.  A request is answered by a network-level failure or by a     *)
(* response with a status code and a body.  The bodies the site serves     *)
(* for a page: its table in live markup, the same table wrapped in an      *)
(* HTML comment, the table with its header row only, a table element with  *)
(* no row at all, the table under another identifier, the table with its   *)
(* header row repeated among the body rows.                                *)
(***************************************************************************)
NetError == "ConnectionError"
Statuses == {200, 429, 503}
BodyKinds == {"live", "hidden", "empty", "norows", "renamed", "repeated"}

\* the identifier the site gives the table of each page
TableIdOf(url) ==
    CASE url = UrlTable -> "results2024-202591_overall"
      [] url = UrlPlayer -> "stats_standard"
      [] url = UrlFixtures -> "sched_2024-2025_9_1"
      [] OTHER -> "stats_" \o (CHOOSE t \in StatSet : url = StatUrl(t))

PageHeader == << <<"Squad", "Pts">> >>
PageRows == << <<"Arsenal", "10">>, <<"Chelsea", "7">> >>

PageTable(url, hdr, rows) == Tbl(TableIdOf(url), {"stats_table"}, hdr, rows)

PageBody(url, kind) ==
    CASE kind = "live" -> << PageTable(url, PageHeader, PageRows) >>
      [] kind = "hidden" -> << Cmt(<< PageTable(url, PageHeader, PageRows) >>) >>
      [] kind = "empty" -> << PageTable(url, PageHeader, <<>>) >>
      [] kind = "norows" -> << PageTable(url, <<>>, <<>>) >>
      [] kind = "repeated" ->
            \* the header row again among the body rows, as fbref's long tables
            \* have it; read_html reads it as a data row
            << PageTable(url, PageHeader,
                         <<PageRows[1]>> \o PageHeader \o <<PageRows[2]>>) >>
      [] kind = "renamed" ->
            << Tbl(TableIdOf(url) \o "_2", {"stats_table"}, PageHeader, PageRows) >>

\* requests.get(url, headers=self.headers): what the site may answer
Answers(url) ==
    {[error |-> TRUE, status_code |-> 0, content |-> <<>>, cost |-> 1]}
    \cup {[error |-> FALSE, status_code |-> st, content |-> PageBody(url, k),
           cost |-> (IF st = 200 THEN 0 ELSE 1) + (IF k = "live" THEN 0 ELSE 1)] :
          st \in Statuses, k \in BodyKinds}

(***************************************************************************)
(* main.py: the three extractions, from the answer to the dataset.  The    *)
(* status code is logged and not looked at; an exception anywhere in the   *)
(* try block, and falling off the end of the function, yield None.         *)
(***************************************************************************)
\* main.py:103-135
get_premier_league_table(response, now) ==
    IF response.error THEN None
    ELSE LET soup == BeautifulSoup(response.content)
             table == FindByClass(soup, "stats_table")
         IN  IF table = None THEN None
             ELSE LET df == read_html(table)
                  IN  IF df = Raises THEN None
                      ELSE IF Len(df.columns) > 1
                           THEN AddColumn(FlattenColumns(df), "Last_Updated", strftime(now))
                           ELSE None

\* main.py:137-169
get_player_stats(response, now) ==
    IF response.error THEN None
    ELSE LET soup == BeautifulSoup(response.content)
             table == FindById(soup, "stats_standard")
         IN  IF table = None THEN None
             ELSE LET df == read_html(table)
                  IN  IF df = Raises THEN None
                      ELSE AddColumn(FlattenColumns(df), "last_updated", strftime(now))

\* main.py:171-195
get_fixtures_and_results(response, now) ==
    IF response.error THEN None
    ELSE LET soup == BeautifulSoup(response.content)
             table == FindByClass(soup, "stats_table")
         IN  IF table = None THEN None
             ELSE LET df == read_html(table)
                  IN  IF df = Raises THEN None
                      ELSE AddColumn(df, "last_updated", strftime(now))

\* whether datetime.now() is reached: only then does the time of the call matter
ReachesNow(response, findAttr) ==
    /\ ~response.error
    /\ LET soup == BeautifulSoup(response.content)
           table == IF findAttr = "id" THEN FindById(soup, "stats_standard")
                    ELSE FindByClass(soup, "stats_table")
       IN  table # None /\ read_html(table) # Raises

(***************************************************************************)
(* The spreadsheet backend.  A tab (worksheet) is absent or holds a grid   *)
(* of rows of cells.                                                       *)
(***************************************************************************)
Absent == [present |-> FALSE, grid |-> <<>>]
Tab(grid) == [present |-> TRUE, grid |-> grid]

\* what a tab of an existing spreadsheet held before the program ran
PriorContent ==
    << <<"Rk", "Squad", "Pts", "Old">>,
       <<"1", "Liverpool", "84", "x">>,
       <<"2", "Arsenal", "74", "x">>,
       <<"3", "Man City", "71", "x">> >>

\* worksheet.clear(): every value is removed
Clear(grid) == <<>>

\* worksheet.update('A1', data_list): the cells of data_list are written
\* from the top-left corner; every other cell keeps its value
Update(grid, data_list) ==
    [i \in 1..(IF Len(grid) > Len(data_list) THEN Len(grid) ELSE Len(data_list)) |->
        IF i > Len(data_list) THEN grid[i]
        ELSE IF i > Len(grid) THEN data_list[i]
        ELSE data_list[i] \o SubSeq(grid[i], Len(data_list[i]) + 1, Len(grid[i]))]

\* main.py:246-250
\*   data_list = [data.columns.tolist()] + data.values.tolist()
\*   if len(data_list) > 1000: data_list = data_list[:1000]
DataList(data) ==
    LET data_list == <<data.columns>> \o data.rows
    IN  IF Len(data_list) > RowLimit THEN SubSeq(data_list, 1, RowLimit) ELSE data_list

\* DataFrame.empty
IsEmpty(data) == Len(data.rows) = 0 \/ Len(data.columns) = 0


(***************************************************************************)
(* update_google_sheet (main.py:197-258).  `e` holds the backend's answer  *)
(* to each call the handler may make (open, create, share, clear, add,     *)
(* update), "ok" or "error".  A store is [exists, ws, backups]: whether    *)
(* the spreadsheet PL_Fantasy_Data exists, its tabs, and the tabs of the   *)
(* backup spreadsheets PL_Data_<n> created so far.                         *)
(***************************************************************************)
ApiCalls == {"open", "create", "share", "clear", "add", "update"}
SheetAnswers == [ApiCalls -> {"ok", "error"}]
NominalAnswers == [c \in ApiCalls |-> "ok"]

NoTabs == [w \in AllTabs |-> Absent]

Report(kind, rows, target, written) ==
    [kind |-> kind, rows |-> rows, target |-> target, written |-> written]

NoReport == Report("none", 0, NoneVal, 0)

\* main.py:209-232: the spreadsheet the handler goes on with.
\*   target: "main", "backup" or None (the handler has returned)
OpenSheet(store, e) ==
    IF e["open"] = "error"
    THEN \* except Exception: a backup spreadsheet under a random name
         IF e["create"] = "error"
         THEN [target |-> NoneVal, kind |-> "no_sheet", store |-> store,
               calls |-> {"open", "create"}]
         ELSE LET made == [store EXCEPT !.backups = Append(@, NoTabs)]
              IN  IF e["share"] = "error"
                  THEN [target |-> NoneVal, kind |-> "no_sheet", store |-> made,
                        calls |-> {"open", "create", "share"}]
                  ELSE [target |-> "backup", kind |-> "", store |-> made,
                        calls |-> {"open", "create", "share"}]
    ELSE IF store.exists
    THEN [target |-> "main", kind |-> "", store |-> store, calls |-> {"open"}]
    ELSE \* except gspread.SpreadsheetNotFound: create and share; an exception
         \* raised here leaves through the outer handler
         IF e["create"] = "error"
         THEN [target |-> NoneVal, kind |-> "error", store |-> store,
               calls |-> {"open", "create"}]
         ELSE LET made == [store EXCEPT !.exists = TRUE, !.ws = NoTabs]
              IN  IF e["share"] = "error"
                  THEN [target |-> NoneVal, kind |-> "error", store |-> made,
                        calls |-> {"open", "create", "share"}]
                  ELSE [target |-> "main", kind |-> "", store |-> made,
                        calls |-> {"open", "create", "share"}]

\* the tab `name` of the spreadsheet the handler holds
TabOf(store, target, name) ==
    IF target = "main" THEN store.ws[name]
    ELSE store.backups[Len(store.backups)][name]

SetTab(store, target, name, grid) ==
    IF target = "main" THEN [store EXCEPT !.ws[name] = grid]
    ELSE [store EXCEPT !.backups[Len(store.backups)][name] = grid]

\* main.py:234-241: the tab is cleared when it exists and added otherwise.
\* When clear() raises, the bare except adds a tab under a title that is
\* taken, which the backend refuses.
OpenWorksheet(store, target, name, e) ==
    IF TabOf(store, target, name) # Absent
    THEN IF e["clear"] = "ok"
         THEN [ok |-> TRUE,
               store |-> SetTab(store, target, name,
                                Tab(Clear(TabOf(store, target, name).grid))),
               calls |-> {"clear"}]
         ELSE [ok |-> FALSE, store |-> store, calls |-> {"clear"}]
    ELSE IF e["add"] = "ok"
         THEN [ok |-> TRUE, store |-> SetTab(store, target, name, Tab(<<>>)),
               calls |-> {"add"}]
         ELSE [ok |-> FALSE, store |-> store, calls |-> {"add"}]

\* main.py:243-255: the rows are written when there are any.  The log line
\* of a write names len(data) rows.
WriteData(store, target, name, data, e) ==
    IF data # None /\ ~IsEmpty(data)
    THEN IF e["update"] = "ok"
         THEN [store |-> SetTab(store, target, name,
                                Tab(Update(TabOf(store, target, name).grid,
                                           DataList(data)))),
               report |-> Report("updated", Len(data.rows), target,
                                 Len(DataList(data)) - 1),
               calls |-> {"update"}]
         ELSE [store |-> store, report |-> Report("error", 0, target, 0),
               calls |-> {"update"}]
    ELSE [store |-> store, report |-> Report("empty", 0, target, 0), calls |-> {}]

\* main.py:197-258, the whole handler: the store it leaves, the line it
\* logs, the backend calls it made
update_google_sheet(client, store, data, name, e) ==
    IF client = NoneVal
    THEN [store |-> store, report |-> Report("no_connection", 0, NoneVal, 0),
          calls |-> {}]
    ELSE LET o == OpenSheet(store, e)
         IN  IF o.target = NoneVal
             THEN [store |-> o.store, report |-> Report(o.kind, 0, NoneVal, 0),
                   calls |-> o.calls]
             ELSE LET w == OpenWorksheet(o.store, o.target, name, e)
                  IN  IF ~w.ok
                      THEN [store |-> w.store,
                            report |-> Report("error", 0, o.target, 0),
                            calls |-> o.calls \cup w.calls]
                      ELSE LET d == WriteData(w.store, o.target, name, data, e)
                           IN  [store |-> d.store, report |-> d.report,
                                calls |-> o.calls \cup w.calls \cup d.calls]

\* the answers that differ from "ok" only where the handler asks
Asked(e, calls) == \A c \in ApiCalls : e[c] = "error" => c \in calls

ErrorsIn(e) == Cardinality({c \in ApiCalls : e[c] = "error"})



(***************************************************************************)
(* pl_scraper.py, the earlier program.                                     *)
(***************************************************************************)
\* pl_scraper.py:51-70: the table by its identifier, else the first table
\* of class stats_table
pl_get_premier_league_table(response, now) ==
    IF response.error THEN None
    ELSE LET soup == BeautifulSoup(response.content)
             byId == FindById(soup, "results2024-202591_overall")
             table == IF byId = None THEN FindByClass(soup, "stats_table") ELSE byId
         IN  IF table = None THEN None
             ELSE LET df == read_html(table)
                  IN  IF df = Raises THEN None
                      ELSE AddColumn(df, "Last_Updated", strftime(now))

\* pl_scraper.py:88-101, one pass of the loop over stat_types: "raise" when
\* the pass raises, None when the page has no table stats_<stat_url>, else
\* the frame the pass appends
pl_stat_frame(stat_name, response, now) ==
    IF response.error THEN Raises
    ELSE LET soup == BeautifulSoup(response.content)
             table == FindById(soup, "stats_" \o stat_name)
         IN  IF table = None THEN None
             ELSE LET df == read_html(table)
                  IN  IF df = Raises THEN Raises
                      ELSE AddColumn(AddColumn(df, "stat_type", stat_name),
                                     "last_updated", strftime(now))

\* pl_scraper.py:109-126
pl_get_fixtures_and_results(response, now) ==
    IF response.error THEN None
    ELSE LET soup == BeautifulSoup(response.content)
             table == FindById(soup, "sched_2024-2025_9_1")
         IN  IF table = None THEN None
             ELSE LET df == read_html(table)
                  IN  IF df = Raises THEN None
                      ELSE AddColumn(df, "last_updated", strftime(now))

\* pl_scraper.py:197: df['stat_type'].iloc[0] raises IndexError on a frame
\* without rows
HasStatType(df) == \E j \in 1..Len(df.columns) : df.columns[j] = "stat_type"

Iloc0Raises(df) == Len(df.rows) = 0

StatTypeAt0(df) ==
    df.rows[1][CHOOSE j \in 1..Len(df.columns) : df.columns[j] = "stat_type"]

\* pl_scraper.py:153-158: any failure of open is answered by creating a
\* spreadsheet of that name; beside an existing one it is a second
\* spreadsheet, kept with the backups
pl_OpenSheet(client, store, e) ==
    IF client # "client"
    THEN \* self.gc was never set: AttributeError in open and again in create
         [target |-> NoneVal, kind |-> "error", store |-> store, calls |-> {}]
    ELSE IF e["open"] = "ok" /\ store.exists
    THEN [target |-> "main", kind |-> "", store |-> store, calls |-> {"open"}]
    ELSE IF e["create"] = "error"
    THEN [target |-> NoneVal, kind |-> "error", store |-> store,
          calls |-> {"open", "create"}]
    ELSE LET made == IF store.exists
                     THEN [store EXCEPT !.backups = Append(@, NoTabs)]
                     ELSE [store EXCEPT !.exists = TRUE, !.ws = NoTabs]
             target == IF store.exists THEN "backup" ELSE "main"
         IN  IF e["share"] = "error"
             THEN [target |-> NoneVal, kind |-> "error", store |-> made,
                   calls |-> {"open", "create", "share"}]
             ELSE [target |-> target, kind |-> "", store |-> made,
                   calls |-> {"open", "create", "share"}]

\* pl_scraper.py:170: every row is written
pl_DataList(data) == <<data.columns>> \o data.rows

\* pl_scraper.py:167-172
pl_WriteData(store, target, name, data, e) ==
    IF data # None /\ ~IsEmpty(data)
    THEN IF e["update"] = "ok"
         THEN [store |-> SetTab(store, target, name,
                                Tab(Update(TabOf(store, target, name).grid,
                                           pl_DataList(data)))),
               report |-> Report("updated", Len(data.rows), target,
                                 Len(pl_DataList(data)) - 1),
               calls |-> {"update"}]
         ELSE [store |-> store, report |-> Report("error", 0, target, 0),
               calls |-> {"update"}]
    ELSE [store |-> store, report |-> Report("empty", 0, target, 0), calls |-> {}]

\* pl_scraper.py:148-175, the whole handler
pl_update_google_sheet(client, store, data, name, e) ==
    LET o == pl_OpenSheet(client, store, e)
    IN  IF o.target = NoneVal
        THEN [store |-> o.store, report |-> Report(o.kind, 0, NoneVal, 0),
              calls |-> o.calls]
        ELSE LET w == OpenWorksheet(o.store, o.target, name, e)
             IN  IF ~w.ok
                 THEN [store |-> w.store,
                       report |-> Report("error", 0, o.target, 0),
                       calls |-> o.calls \cup w.calls]
                 ELSE LET d == pl_WriteData(w.store, o.target, name, data, e)
                      IN  [store |-> d.store, report |-> d.report,
                           calls |-> o.calls \cup w.calls \cup d.calls]


(***************************************************************************)
(* The state of the process.                                               *)
(***************************************************************************)
VARIABLES
    prog,             \* the program that runs: "main" (main.py) or "pl_scraper"
    production,       \* RENDER or RAILWAY_ENVIRONMENT is set
    gc,               \* self.gc: None, the authorised client, or never set
    pc,               \* where the main thread is
    caller,           \* who called the full_update in progress
    fu,               \* where the full_update in progress is
    jobs,             \* the jobs registered with `schedule`
    pending,          \* how many runnable jobs run_pending has still to run
    webThread,        \* the liveness server's daemon thread is serving
    running,          \* the threads inside full_update
    runs,             \* full_update calls made so far
    faults,           \* environment deviations so far
    clock,            \* seconds of wall clock elapsed since the process started
    table_data,       \* full_update's locals
    player_data,
    fixtures_data,
    all_player_data,  \* pl_scraper.py get_player_stats' list
    i,                \* the index of the loop in progress
    http,             \* per url, this run's GETs in order: the status or the error
    origin,           \* per destination, the response its dataset was built from
    store,            \* the spreadsheet backend
    report,           \* per destination, the line update_google_sheet logged
    served            \* per url, the body of the response to this run's request

setup == <<prog, production, gc>>
control == <<pc, caller, fu, running, runs>>
scheduler == <<jobs, pending>>
locals == <<table_data, player_data, fixtures_data, all_player_data, i>>
notes == <<http, origin, report, served>>

vars == <<setup, control, scheduler, webThread, faults, clock, locals, notes, store>>

\* main.py:308, 311
Jobs == {"every_30_minutes", "daily_at_0800"}

\* pl_scraper.py:211-221
pl_Jobs ==
    Jobs \cup {"saturday_1200", "saturday_1500", "saturday_1730", "sunday_1400",
               "sunday_1630"}

\* how many of the registered jobs run_pending may find runnable; every job
\* is the same bound method, self.full_update
Runnable(js) == 0..Cardinality(js)

NoHttp == [u \in AllUrls |-> <<>>]
NoOrigin == [w \in AllTabs |-> None]
NoReports == [w \in AllTabs |-> NoReport]
NoneServed == [u \in AllUrls |-> None]

\* the spreadsheet backend before the process starts: no spreadsheet of the
\* name, or one whose tabs hold earlier content
InitialStores ==
    {[exists |-> FALSE, ws |-> NoTabs, backups |-> <<>>],
     [exists |-> TRUE, ws |-> [w \in AllTabs |-> Tab(PriorContent)], backups |-> <<>>]}

\* the state after PremierLeagueScraper() (main.py:375, 15-24, 34-82;
\* pl_scraper.py:237, 14-23, 33-49, where a failed setup leaves self.gc unset)
InitWith(p) ==
    /\ prog = p
    /\ production \in (IF p = "main" THEN BOOLEAN ELSE {FALSE})
    /\ gc \in {IF p = "main" THEN NoneVal ELSE "unset", "client"}
    /\ pc = "main"
    /\ caller = NoneVal
    /\ fu = "idle"
    /\ jobs = {}
    /\ pending = 0
    /\ webThread = FALSE
    /\ running = {}
    /\ runs = 0
    /\ faults = 0
    /\ clock = 0
    /\ table_data = None
    /\ player_data = None
    /\ fixtures_data = None
    /\ all_player_data = <<>>
    /\ i = 0
    /\ http = NoHttp
    /\ origin = NoOrigin
    /\ store \in InitialStores
    /\ report = NoReports
    /\ served = NoneServed

\* python main.py
Init == InitWith("main")

\* python pl_scraper.py
pl_Init == InitWith("pl_scraper")

\* a call of self.full_update() by the main thread (main.py:260-264,
\* pl_scraper.py:177-181)
CallFullUpdate(by) ==
    /\ runs < MaxRuns
    /\ pc' = "full_update"
    /\ caller' = by
    /\ fu' = IF prog = "main" THEN "test" ELSE "table"
    /\ running' = running \cup {"main"}
    /\ runs' = runs + 1

\* a variant of main that starts the scheduler whatever the environment, as
\* pl_scraper.py's main does
main_always_scheduler ==
    /\ pc = "main"
    /\ prog = "main"
    /\ webThread' = production
    /\ pc' = "start_scheduler"
    /\ UNCHANGED <<setup, caller, fu, running, runs, scheduler, faults, clock,
                   locals, notes, store>>


\* main.py:369-386
main ==
    /\ pc = "main"
    /\ prog = "main"
    /\ \/ /\ production
          \* run_web_server() (main.py:323-367), then start_scheduler()
          /\ webThread' = TRUE
          /\ pc' = "start_scheduler"
       \/ /\ ~production
          /\ pc' = "run_once"
          /\ UNCHANGED webThread
    /\ UNCHANGED <<setup, caller, fu, running, runs, scheduler, faults, clock,
                   locals, notes, store>>

\* main.py:299-301
run_once ==
    /\ pc = "run_once"
    /\ CallFullUpdate("run_once")
    /\ UNCHANGED <<setup, scheduler, webThread, faults, clock, locals, notes, store>>

\* main.py:303-316: the two jobs are registered, then the first update runs
start_scheduler ==
    /\ pc = "start_scheduler"
    /\ prog = "main"
    /\ jobs' = Jobs
    /\ CallFullUpdate("start_scheduler")
    /\ UNCHANGED <<setup, pending, webThread, faults, clock, locals, notes, store>>

\* a variant of test_google_connection whose result is always True
AlwaysConnected(client, answer) == TRUE

\* main.py:84-101: False without a client or when listing spreadsheets raises
test_google_connection(client, answer) == client # NoneVal /\ answer = "ok"

\* main.py:264-269
full_update_test ==
    /\ pc = "full_update" /\ fu = "test"
    /\ \E answer \in {"ok", "error"} :
        /\ answer = "error" => gc # NoneVal /\ faults < MaxFaults
        /\ faults' = faults + (IF answer = "error" THEN 1 ELSE 0)
        /\ fu' = IF test_google_connection(gc, answer) THEN "table" ELSE "return"
    /\ UNCHANGED <<setup, pc, caller, running, runs, scheduler, webThread, clock,
                   locals, notes, store>>

\* a variant of Fetch that sends the request a second time
FetchTwice(url, r, dt) ==
    /\ faults + r.cost + dt <= MaxFaults
    /\ faults' = faults + r.cost + dt
    /\ http' = [http EXCEPT ![url] =
                  @ \o << IF r.error THEN NetError ELSE ToString(r.status_code),
                          IF r.error THEN NetError ELSE ToString(r.status_code) >>]
    /\ served' = [served EXCEPT ![url] =
                    IF r.error THEN None ELSE [content |-> r.content]]

\* one requests.get and the time that passes until the datetime.now() that
\* may follow it (dt seconds): the answer is noted for the url
Fetch(url, r, dt) ==
    /\ faults + r.cost + dt <= MaxFaults
    /\ faults' = faults + r.cost + dt
    /\ http' = [http EXCEPT ![url] =
                  Append(@, IF r.error THEN NetError ELSE ToString(r.status_code))]
    /\ served' = [served EXCEPT ![url] =
                    IF r.error THEN None ELSE [content |-> r.content]]

\* a variant of OriginOf for a document kept for the life of the process:
\* what is parsed is the document of the first run
OriginKept(r) == [status |-> r.status_code, run |-> 1]

\* the response a dataset is built from: the one just received, in this run
OriginOf(r) == [status |-> r.status_code, run |-> runs]

\* a variant of AfterTable that gives the run up when the first extraction
\* returned None
AbortIfNone(data) == IF data = None THEN "return" ELSE "player"

\* main.py:273-274: get_player_stats is called next, whatever
\* get_premier_league_table returned
AfterTable(data) == "player"

\* main.py:273 and 103-135
full_update_get_table ==
    /\ pc = "full_update" /\ fu = "table" /\ prog = "main"
    /\ \E r \in Answers(UrlTable), dt \in {0, 1} :
        /\ dt = 1 => ReachesNow(r, "class")
        /\ Fetch(UrlTable, r, dt)
        /\ clock' = clock + dt
        /\ table_data' = get_premier_league_table(r, clock')
        /\ origin' = [origin EXCEPT ![WsTable] =
                        IF table_data' = None THEN None ELSE OriginOf(r)]
        /\ fu' = AfterTable(table_data')
    /\ UNCHANGED <<setup, pc, caller, running, runs, scheduler, webThread,
                   player_data, fixtures_data, all_player_data, i, store, report>>

\* main.py:274 and 137-169
full_update_get_player ==
    /\ pc = "full_update" /\ fu = "player" /\ prog = "main"
    /\ \E r \in Answers(UrlPlayer), dt \in {0, 1} :
        /\ dt = 1 => ReachesNow(r, "id")
        /\ Fetch(UrlPlayer, r, dt)
        /\ clock' = clock + dt
        /\ player_data' = get_player_stats(r, clock')
        /\ origin' = [origin EXCEPT ![WsPlayer] =
                        IF player_data' = None THEN None ELSE OriginOf(r)]
    /\ fu' = "fixtures"
    /\ UNCHANGED <<setup, pc, caller, running, runs, scheduler, webThread,
                   table_data, fixtures_data, all_player_data, i, store, report>>

\* main.py:275 and 171-195
full_update_get_fixtures ==
    /\ pc = "full_update" /\ fu = "fixtures" /\ prog = "main"
    /\ \E r \in Answers(UrlFixtures), dt \in {0, 1} :
        /\ dt = 1 => ReachesNow(r, "class")
        /\ Fetch(UrlFixtures, r, dt)
        /\ clock' = clock + dt
        /\ fixtures_data' = get_fixtures_and_results(r, clock')
        /\ origin' = [origin EXCEPT ![WsFixtures] =
                        IF fixtures_data' = None THEN None ELSE OriginOf(r)]
    /\ fu' = "update_table"
    /\ UNCHANGED <<setup, pc, caller, running, runs, scheduler, webThread,
                   table_data, player_data, all_player_data, i, store, report>>

\* the page a tab's dataset is extracted from (main.py:108, 145, 178)
PageOf(w) ==
    CASE w = WsTable -> UrlTable
      [] w = WsPlayer -> UrlPlayer
      [] w = WsFixtures -> UrlFixtures

\* full_update's local that holds the dataset of a tab (main.py:273-275)
Dataset(w) ==
    CASE w = WsTable -> table_data
      [] w = WsPlayer -> player_data
      [] w = WsFixtures -> fixtures_data

\* a variant of Publish that writes nothing unless all three extractions
\* succeeded: the coupling between datasets that C1 excludes
PublishAllOrNothing(data, name) ==
    /\ report' = [report EXCEPT ![name] =
                    IF \A w \in WsNames : Dataset(w) # None
                    THEN update_google_sheet(gc, store, data, name, NominalAnswers).report
                    ELSE Report("skipped", 0, NoneVal, 0)]
    /\ store' = IF \A w \in WsNames : Dataset(w) # None
                THEN update_google_sheet(gc, store, data, name, NominalAnswers).store
                ELSE store
    /\ UNCHANGED faults

\* a variant of Publish without the test for None: update_google_sheet is
\* called whatever the extraction returned
PublishAlways(data, name) ==
    \E e \in SheetAnswers :
        LET u == update_google_sheet(gc, store, data, name, e)
        IN  /\ Asked(e, u.calls)
            /\ faults + ErrorsIn(e) <= MaxFaults
            /\ faults' = faults + ErrorsIn(e)
            /\ store' = u.store
            /\ report' = [report EXCEPT ![name] = u.report]

\* main.py:280-283, 286-289, 292-295: update_google_sheet is called for a
\* dataset that is not None; otherwise a line is logged
Publish(data, name) ==
    IF data = None
    THEN /\ report' = [report EXCEPT ![name] = Report("skipped", 0, NoneVal, 0)]
         /\ UNCHANGED <<store, faults>>
    ELSE \E e \in SheetAnswers :
            LET u == update_google_sheet(gc, store, data, name, e)
            IN  /\ Asked(e, u.calls)
                /\ faults + ErrorsIn(e) <= MaxFaults
                /\ faults' = faults + ErrorsIn(e)
                /\ store' = u.store
                /\ report' = [report EXCEPT ![name] = u.report]

full_update_table ==
    /\ pc = "full_update" /\ fu = "update_table" /\ prog = "main"
    /\ Publish(table_data, WsTable)
    /\ fu' = "update_player"
    /\ UNCHANGED <<setup, pc, caller, running, runs, scheduler, webThread, clock,
                   locals, http, origin, served>>

full_update_player ==
    /\ pc = "full_update" /\ fu = "update_player" /\ prog = "main"
    /\ Publish(player_data, WsPlayer)
    /\ fu' = "update_fixtures"
    /\ UNCHANGED <<setup, pc, caller, running, runs, scheduler, webThread, clock,
                   locals, http, origin, served>>

full_update_fixtures ==
    /\ pc = "full_update" /\ fu = "update_fixtures" /\ prog = "main"
    /\ Publish(fixtures_data, WsFixtures)
    /\ fu' = "return"
    /\ UNCHANGED <<setup, pc, caller, running, runs, scheduler, webThread, clock,
                   locals, http, origin, served>>

\* full_update returns to its caller (main.py:269, 297; pl_scraper.py:204);
\* its locals and the notes of the run are gone
full_update_return ==
    /\ pc = "full_update" /\ fu = "return"
    /\ pc' = CASE caller = "run_once" -> "exit"
               [] caller = "start_scheduler" -> "run_pending"
               [] caller = "job" -> "run_jobs"
    /\ fu' = "idle"
    /\ caller' = NoneVal
    /\ running' = running \ {"main"}
    /\ table_data' = None
    /\ player_data' = None
    /\ fixtures_data' = None
    /\ all_player_data' = <<>>
    /\ i' = 0
    /\ http' = NoHttp
    /\ served' = NoneServed
    /\ origin' = NoOrigin
    /\ report' = NoReports
    /\ UNCHANGED <<setup, runs, scheduler, webThread, faults, clock, store>>

\* main.py:319-320, pl_scraper.py:229-230, schedule.run_pending(): the jobs
\* that are due now
run_pending ==
    /\ pc = "run_pending"
    /\ \E due \in Runnable(jobs) :
        /\ due <= MaxRuns - runs
        /\ pending' = due
    /\ pc' = "run_jobs"
    /\ UNCHANGED <<setup, caller, fu, running, runs, jobs, webThread, faults,
                   clock, locals, notes, store>>

\* schedule runs the due jobs one after the other in the calling thread
run_job ==
    /\ pc = "run_jobs"
    /\ \/ /\ pending > 0
          /\ pending' = pending - 1
          /\ CallFullUpdate("job")
       \/ /\ pending = 0
          /\ pc' = "sleep"
          /\ UNCHANGED <<pending, caller, fu, running, runs>>
    /\ UNCHANGED <<setup, jobs, webThread, faults, clock, locals, notes, store>>

\* main.py:321, pl_scraper.py:231, time.sleep(60).  The clock of the model
\* is capped: it counts one sleep for every run made.
sleep ==
    /\ pc = "sleep"
    /\ pc' = "run_pending"
    /\ clock' = IF clock < 60 * runs THEN clock + 60 ELSE clock
    /\ UNCHANGED <<setup, caller, fu, running, runs, scheduler, webThread, faults,
                   locals, notes, store>>

\* a variant of do_GET whose handler starts an update in the server thread
do_GET_update ==
    /\ webThread
    /\ pc \notin {"exit", "crashed"}
    /\ running' = running \cup {"web"}
    /\ UNCHANGED <<setup, pc, caller, fu, runs, scheduler, webThread, faults,
                   clock, locals, notes, store>>

\* main.py:328-355, Handler.do_GET in the server thread: the status page is
\* sent with status 200; nothing of the scraper is read or written
do_GET ==
    /\ webThread
    /\ pc \notin {"exit", "crashed"}
    /\ running' = running
    /\ UNCHANGED <<setup, pc, caller, fu, runs, scheduler, webThread, faults,
                   clock, locals, notes, store>>


(***************************************************************************)
(* pl_scraper.py: main, start_scheduler and the steps of full_update.      *)
(***************************************************************************)
\* pl_scraper.py:233-238: always the scheduler
pl_main ==
    /\ pc = "main"
    /\ prog = "pl_scraper"
    /\ pc' = "start_scheduler"
    /\ UNCHANGED <<setup, caller, fu, running, runs, scheduler, webThread, faults,
                   clock, locals, notes, store>>

\* pl_scraper.py:206-226
pl_start_scheduler ==
    /\ pc = "start_scheduler"
    /\ prog = "pl_scraper"
    /\ jobs' = pl_Jobs
    /\ CallFullUpdate("start_scheduler")
    /\ UNCHANGED <<setup, pending, webThread, faults, clock, locals, notes, store>>

\* pl_scraper.py:184 and 51-70
pl_full_update_get_table ==
    /\ pc = "full_update" /\ fu = "table" /\ prog = "pl_scraper"
    /\ \E r \in Answers(UrlTable) :
        /\ Fetch(UrlTable, r, 0)
        /\ UNCHANGED clock
        /\ table_data' = pl_get_premier_league_table(r, clock')
        /\ origin' = [origin EXCEPT ![WsTable] =
                        IF table_data' = None THEN None ELSE OriginOf(r)]
    /\ fu' = "player"
    /\ i' = 1
    /\ all_player_data' = <<>>
    /\ UNCHANGED <<setup, pc, caller, running, runs, scheduler, webThread,
                   player_data, fixtures_data, store, report>>

\* pl_scraper.py:185 and 72-107: one pass of the loop over stat_types, with
\* its time.sleep(2); the function returns the list after the last pass and
\* None from the pass that raises
pl_get_player_stats ==
    /\ pc = "full_update" /\ fu = "player" /\ prog = "pl_scraper"
    /\ \E r \in Answers(StatUrl(stat_types[i])) :
        LET df == pl_stat_frame(stat_types[i], r, clock)
        IN  /\ Fetch(StatUrl(stat_types[i]), r, 0)
            /\ \/ /\ df = Raises
                  /\ player_data' = None
                  /\ fu' = "fixtures"
                  /\ UNCHANGED <<all_player_data, i, clock, origin>>
               \/ /\ df # Raises
                  /\ all_player_data' =
                        IF df = None THEN all_player_data
                        ELSE Append(all_player_data, df)
                  /\ origin' = [origin EXCEPT ![StatTab(stat_types[i])] =
                                  IF df = None THEN None ELSE OriginOf(r)]
                  /\ clock' = clock + 2
                  /\ i' = i + 1
                  /\ IF i = Len(stat_types)
                     THEN /\ player_data' = [list |-> all_player_data']
                          /\ fu' = "fixtures"
                     ELSE UNCHANGED <<player_data, fu>>
    /\ UNCHANGED <<setup, pc, caller, running, runs, scheduler, webThread,
                   table_data, fixtures_data, store, report>>

\* pl_scraper.py:186 and 109-126
pl_full_update_get_fixtures ==
    /\ pc = "full_update" /\ fu = "fixtures" /\ prog = "pl_scraper"
    /\ \E r \in Answers(UrlFixtures) :
        /\ Fetch(UrlFixtures, r, 0)
        /\ UNCHANGED clock
        /\ fixtures_data' = pl_get_fixtures_and_results(r, clock')
        /\ origin' = [origin EXCEPT ![WsFixtures] =
                        IF fixtures_data' = None THEN None ELSE OriginOf(r)]
    /\ fu' = "update_table"
    /\ UNCHANGED <<setup, pc, caller, running, runs, scheduler, webThread,
                   table_data, player_data, all_player_data, i, store, report>>

\* a call of pl_scraper.py's update_google_sheet
pl_Publish(data, name) ==
    \E e \in SheetAnswers :
        LET u == pl_update_google_sheet(gc, store, data, name, e)
        IN  /\ Asked(e, u.calls)
            /\ faults + ErrorsIn(e) <= MaxFaults
            /\ faults' = faults + ErrorsIn(e)
            /\ store' = u.store
            /\ report' = [report EXCEPT ![name] = u.report]

\* pl_scraper.py:190-192
pl_full_update_table ==
    /\ pc = "full_update" /\ fu = "update_table" /\ prog = "pl_scraper"
    /\ IF table_data # None
       THEN pl_Publish(table_data, WsTable)
       ELSE UNCHANGED <<store, faults, report>>
    /\ fu' = "update_player"
    /\ i' = 1
    /\ UNCHANGED <<setup, pc, caller, running, runs, scheduler, webThread, clock,
                   table_data, player_data, fixtures_data, all_player_data, http,
                   origin, served>>

\* pl_scraper.py:195, `if player_data:`: None and the empty list are false
Truthy(data) == IF data = None THEN FALSE ELSE data.list # <<>>

\* pl_scraper.py:194-198: one pass of the loop over the frames.  The tab is
\* named after the first row's stat_type; no handler encloses that lookup
pl_full_update_player ==
    /\ pc = "full_update" /\ fu = "update_player" /\ prog = "pl_scraper"
    /\ \/ \* if player_data: None and the empty list are skipped
          /\ ~Truthy(player_data)
          /\ fu' = "update_fixtures"
          /\ UNCHANGED <<pc, running, store, faults, report, i>>
       \/ /\ Truthy(player_data)
          /\ Iloc0Raises(player_data.list[i])
          \* IndexError leaves full_update, start_scheduler and main
          /\ pc' = "crashed"
          /\ fu' = "raised"
          /\ running' = running \ {"main"}
          /\ UNCHANGED <<store, faults, report, i>>
       \/ /\ Truthy(player_data)
          /\ ~Iloc0Raises(player_data.list[i])
          /\ pl_Publish(player_data.list[i],
                        StatTab(StatTypeAt0(player_data.list[i])))
          /\ i' = i + 1
          /\ fu' = IF i = Len(player_data.list) THEN "update_fixtures" ELSE fu
          /\ UNCHANGED <<pc, running>>
    /\ UNCHANGED <<setup, caller, runs, scheduler, webThread, clock, table_data,
                   player_data, fixtures_data, all_player_data, http, origin, served>>

\* pl_scraper.py:200-204
pl_full_update_fixtures ==
    /\ pc = "full_update" /\ fu = "update_fixtures" /\ prog = "pl_scraper"
    /\ IF fixtures_data # None
       THEN pl_Publish(fixtures_data, WsFixtures)
       ELSE UNCHANGED <<store, faults, report>>
    /\ fu' = "return"
    /\ UNCHANGED <<setup, pc, caller, running, runs, scheduler, webThread, clock,
                   locals, http, origin, served>>

Next ==
    \/ main
    \/ run_once
    \/ start_scheduler
    \/ full_update_test
    \/ full_update_get_table
    \/ full_update_get_player
    \/ full_update_get_fixtures
    \/ full_update_table
    \/ full_update_player
    \/ full_update_fixtures
    \/ full_update_return
    \/ run_pending
    \/ run_job
    \/ sleep
    \/ do_GET

Spec == Init /\ [][Next]_vars

pl_Next ==
    \/ pl_main
    \/ pl_start_scheduler
    \/ pl_full_update_get_table
    \/ pl_get_player_stats
    \/ pl_full_update_get_fixtures
    \/ pl_full_update_table
    \/ pl_full_update_player
    \/ pl_full_update_fixtures
    \/ full_update_return
    \/ run_pending
    \/ run_job
    \/ sleep

pl_Spec == pl_Init /\ [][pl_Next]_vars


(***************************************************************************)
(* Properties of main.py's full_update.                                    *)
(***************************************************************************)
\* full_update of main.py is about to return
Returning == pc = "full_update" /\ fu = "return" /\ prog = "main"

\* the connection test failed: full_update returned from main.py:269
Untested == http = NoHttp /\ report = NoReports

\* C1: within one run of main.py's full_update the datasets are independent.
\* Once the connection test has passed, every dataset's page has been
\* requested exactly once whatever became of the other datasets, and
\* update_google_sheet has been called for exactly the datasets whose own
\* extraction returned a frame, whatever the extraction or the publishing of
\* the others did.
C1_Independent ==
    (Returning /\ ~Untested) =>
        /\ \A u \in Urls : Len(http[u]) = 1
        /\ \A w \in WsNames :
              /\ (Dataset(w) = None) <=> (report[w].kind = "skipped")
              /\ report[w].kind # "none"

\* C1: the league table's fetch failed, the player statistics were extracted
\* and written, and the fixtures were extracted and handed to the publisher
C1_Witness ==
    /\ Returning
    /\ http[UrlTable] = <<NetError>>
    /\ table_data = None
    /\ report[WsPlayer].kind = "updated"
    /\ fixtures_data # None
    /\ report[WsFixtures].kind = "updated"
\* the request for the first page of the run failed at the network level
FirstFetchFailed == prog = "main" /\ http[UrlTable] = <<NetError>>

C4_RetriesOn429 ==
    \A u \in Urls :
        (http[u] # <<>> /\ http[u][Len(http[u])] = "429") => Len(http[u]) = 5

\* C5: the body of an answer whose status is neither 200 nor 429 is never
\* parsed: no dataset is built from such an answer, and none is published.
C5_OnlyFrom200 ==
    \A w \in WsNames :
        IF origin[w] = None THEN TRUE
        ELSE origin[w].status \in {200, 429} \/ report[w].kind # "updated"

\* C6: within one run at most one GET is issued for any one url, however
\* many datasets the run builds (http holds the requests of the run in
\* progress).
C6_AtMostOneGet == \A u \in AllUrls : Len(http[u]) <= 1

\* C6: the second run of a process has requested all of its pages and built
\* all three datasets
C6_Witness ==
    /\ prog = "main"
    /\ runs = 2
    /\ fu = "update_table"
    /\ \A u \in Urls : Len(http[u]) = 1
    /\ \A w \in WsNames : Dataset(w) # None

\* C7: no stale document across runs: a dataset written in run N was
\* extracted from a response received in run N, for a request made in run N.
C7_FreshDocument ==
    \A w \in WsNames :
        (prog = "main" /\ report[w].kind = "updated") =>
            /\ Len(http[PageOf(w)]) = 1
            /\ IF origin[w] = None THEN FALSE ELSE origin[w].run = runs

\* C7: the second run, started by a job, has written the player statistics
\* it fetched, after the first run had written its own
C7_Witness ==
    /\ prog = "main"
    /\ runs = 2
    /\ caller = "job"
    /\ report[WsPlayer].kind = "updated"
    /\ store.exists
    /\ store.ws[WsPlayer].present
    /\ Len(store.ws[WsPlayer].grid) = 3

\* C9: runs do not overlap: at most one thread is inside full_update, and
\* it is the main thread, which is inside exactly while a call made by
\* run_once, start_scheduler or a job has not returned; the server thread
\* never is.
C9_NoOverlap ==
    /\ Cardinality(running) <= 1
    /\ running = IF pc = "full_update" THEN {"main"} ELSE {}
    /\ pc = "full_update" <=> caller # NoneVal

\* C9: production: the server thread is serving and a run started by a job
\* is in progress, after the immediate first run has returned
C9_Witness ==
    /\ prog = "main"
    /\ production
    /\ webThread
    /\ jobs = Jobs
    /\ caller = "job"
    /\ runs = 2
    /\ running = {"main"}
    /\ fu = "fixtures"

\* the document with every comment replaced by the markup it wraps
RECURSIVE Unwrap(_)
Unwrap(doc) ==
    IF doc = <<>> THEN <<>>
    ELSE IF Head(doc).kind = "comment"
         THEN Unwrap(Head(doc).inner) \o Unwrap(Tail(doc))
         ELSE <<Head(doc)>> \o Unwrap(Tail(doc))

\* C10: comment-unwrapping transparency: on every page served, locating the
\* table gives the same result as on the page with its comments unwrapped
\* (by identifier stats_standard on the statistics page, by class
\* stats_table on the league-table page); a comment-hidden stats_standard
\* table is found and yields the Player_Stats dataset.
C10_CommentTransparent ==
    /\ IF served[UrlPlayer] = None THEN TRUE
       ELSE LET doc == served[UrlPlayer].content
                live == FindById(BeautifulSoup(Unwrap(doc)), "stats_standard")
            IN  /\ FindById(BeautifulSoup(doc), "stats_standard") = live
                /\ (prog = "main" /\ live = PageTable(UrlPlayer, PageHeader, PageRows))
                      => player_data # None
    /\ IF served[UrlTable] = None THEN TRUE
       ELSE LET doc == served[UrlTable].content
            IN  FindByClass(BeautifulSoup(doc), "stats_table")
                  = FindByClass(BeautifulSoup(Unwrap(doc)), "stats_table")


(***************************************************************************)
(* Properties of pl_scraper.py's full_update.                              *)
(***************************************************************************)
\* C2: every failure is captured as an outcome: no exception escapes
\* full_update and the process does not crash, whatever the pages and the
\* backend answer, a located table that parses to zero rows included.
C2_NoEscape == fu # "raised" /\ pc # "crashed"

(***************************************************************************)
(* update_google_sheet of main.py on datasets of many rows: the handler    *)
(* is called on a frame get_player_stats returns for a page whose table    *)
(* has n rows, n around the limit of main.py:249.                          *)
(***************************************************************************)
RowCounts == {0, 2, RowLimit - 1, RowLimit, RowLimit + 1}

\* the answer to the request for a statistics page whose table has n rows
LongAnswer(n) ==
    [error |-> FALSE, status_code |-> 200,
     content |-> << PageTable(UrlPlayer, PageHeader,
                              [k \in 1..n |-> <<"Player " \o ToString(k), "0">>]) >>,
     cost |-> 0]

update_Init ==
    /\ prog = "main"
    /\ production = FALSE
    /\ gc = "client"
    /\ pc = "update_google_sheet"
    /\ caller = NoneVal
    /\ fu = "idle"
    /\ jobs = {}
    /\ pending = 0
    /\ webThread = FALSE
    /\ running = {}
    /\ runs = 0
    /\ faults = 0
    /\ clock = 0
    /\ table_data = None
    /\ player_data \in {get_player_stats(LongAnswer(n), 0) : n \in RowCounts}
    /\ fixtures_data = None
    /\ all_player_data = <<>>
    /\ i = 0
    /\ http = NoHttp
    /\ origin = NoOrigin
    /\ store \in InitialStores
    /\ report = NoReports
    /\ served = NoneServed

\* self.update_google_sheet(sheet_name, player_data, name) (main.py:288)
update_call ==
    /\ pc = "update_google_sheet"
    /\ runs < MaxRuns
    /\ runs' = runs + 1
    /\ \E name \in WsNames : Publish(player_data, name)
    /\ UNCHANGED <<setup, pc, caller, fu, running, scheduler, webThread, clock,
                   locals, http, origin, served>>

update_Next == update_call

update_Spec == update_Init /\ [][update_Next]_vars

\* C8: a publish replaces the tab's content wholesale: after the handler
\* reports success the tab it wrote holds exactly the column names as first
\* row and then one row per dataset row, in order, for any row count; no
\* prior cell remains and no dataset row is missing.
C8_WholesaleReplace ==
    \A w \in WsNames :
        (report[w].kind = "updated" /\ report[w].target = "main") =>
            store.ws[w] = Tab(<<player_data.columns>> \o player_data.rows)

(***************************************************************************)
(* Properties of the extractions and of the lifecycle.                     *)
(***************************************************************************)
\* C11: the identifier candidate is tried first and wins; the first table of
\* class stats_table is returned only when no identifier matches; nothing
\* is found only when the page has neither.  On the statistics page: when
\* the page served has a table with identifier stats_standard, or else a
\* table of class stats_table, and that table parses, get_player_stats
\* yields a dataset, and its rows are that table's rows.
C11_IdThenClass ==
    IF prog # "main" \/ served[UrlPlayer] = None THEN TRUE
    ELSE LET soup == BeautifulSoup(served[UrlPlayer].content)
             byId == FindById(soup, "stats_standard")
             table == IF byId = None THEN FindByClass(soup, "stats_table") ELSE byId
         IN  IF table = None THEN player_data = None
             ELSE IF read_html(table) = Raises THEN player_data = None
             ELSE IF player_data = None THEN FALSE
             ELSE Len(player_data.rows) = Len(table.rows)

\* C12: repeated header rows are removed: no dataset produced has a row
\* whose value in a column named Squad, Team or Rk is that column's own
\* label.
C12_NoRepeatedHeader ==
    \A w \in WsNames :
        IF prog # "main" \/ Dataset(w) = None THEN TRUE
        ELSE LET df == Dataset(w)
             IN  \A k \in 1..Len(df.rows), j \in 1..Len(df.columns) :
                    df.columns[j] \in {"Squad", "Team", "Rk"}
                        => df.rows[k][j] # df.columns[j]

\* the value of the last column of row k of a dataset
Stamp(df, k) == df.rows[k][Len(df.columns)]

\* C13 as stated: within one full_update all rows of all datasets hold the
\* same timestamp string.
C13_SameStampAcrossDatasets ==
    \A v, w \in WsNames :
        IF prog # "main" \/ Dataset(v) = None \/ Dataset(w) = None THEN TRUE
        ELSE \A k \in 1..Len(Dataset(v).rows), l \in 1..Len(Dataset(w).rows) :
                Stamp(Dataset(v), k) = Stamp(Dataset(w), l)

\* C13, amended: every dataset produced carries exactly one additional
\* column, the last one, named Last_Updated (League_Table) or last_updated
\* (Player_Stats, Fixtures_Results); its value is the formatted time of the
\* dataset's own extraction, a time of the run, and is the same in every row
\* of that dataset.
C13_OneStampPerDataset ==
    \A w \in WsNames :
        IF prog # "main" \/ Dataset(w) = None THEN TRUE
        ELSE LET df == Dataset(w)
             IN  /\ Len(df.columns) = Len(PageHeader[1]) + 1
                 /\ df.columns[Len(df.columns)] =
                        (IF w = WsTable THEN "Last_Updated" ELSE "last_updated")
                 /\ \A k \in 1..Len(df.rows) :
                        /\ Len(df.rows[k]) = Len(df.columns)
                        /\ Stamp(df, k) = Stamp(df, 1)
                        /\ \E t \in 0..clock : Stamp(df, k) = strftime(t)

\* C13: two datasets of one run, each stamped in all its rows, with
\* different timestamps
C13_Witness ==
    /\ prog = "main"
    /\ pc = "full_update"
    /\ table_data # None
    /\ player_data # None
    /\ Len(table_data.rows) = 2
    /\ Len(player_data.rows) = 2
    /\ Stamp(table_data, 2) # Stamp(player_data, 2)

\* C14: a run ends with one outcome per destination, and a destination is
\* reported published only if its content was written, with the number of
\* rows written: when full_update returns, every tab has its line; a line
\* that reports an update names as many rows as were written, and the tab
\* of PL_Fantasy_Data holds them under the header row.
C14_OneOutcome ==
    \A w \in WsNames :
        /\ Returning => report[w].kind # "none"
        /\ report[w].kind = "updated" =>
              /\ report[w].rows = report[w].written
              /\ store.exists
              /\ store.ws[w].present
              /\ Len(store.ws[w].grid) = report[w].rows + 1

\* C15: in main.py's full_update the connection is tested before anything
\* else, and a failed test ends the run: while the test is due the run has
\* requested no page and logged no tab; the test step requests nothing and
\* leaves the spreadsheets alone; without a client, or when listing the
\* spreadsheets raises, the run goes straight to its return, and the return
\* requests nothing and leaves the spreadsheets alone.
C15_ConnectionFirst ==
    [][ /\ (prog = "main" /\ pc = "full_update" /\ fu = "test") =>
              /\ http = NoHttp /\ report = NoReports /\ served = NoneServed
              /\ http' = NoHttp /\ report' = NoReports
              /\ store' = store
              /\ fu' \in {"table", "return"}
              /\ (gc = NoneVal \/ faults' # faults) => fu' = "return"
        /\ (prog = "main" /\ pc = "full_update" /\ fu = "return") =>
              /\ store' = store
              /\ http' = NoHttp
              /\ pc' # "full_update"
      ]_vars

\* C15: a run of a process with a client whose connection test failed is
\* about to return: no page requested, the tabs as they were
C15_Witness ==
    /\ Returning
    /\ gc = "client"
    /\ faults = 1
    /\ http = NoHttp
    /\ report = NoReports
    /\ store.exists
    /\ \A w \in WsNames : store.ws[w] = Tab(PriorContent)

\* C16: update_google_sheet leaves a tab's prior content unchanged whenever
\* it does not write the new dataset: a call on an existing tab that ends
\* with the no-data line or with the error line leaves the tab as it was.
C16_PriorContentKept ==
    [][ \A w \in WsNames :
            ( /\ report'[w] # report[w]
              /\ report'[w].kind \in {"empty", "error"}
              /\ store.exists
              /\ store.ws[w].present )
            => store'.ws[w] = store.ws[w]
      ]_vars

\* C17: within one full_update of main.py the three extractions are over
\* before the first tab is handled, the tabs are handled in the order
\* League_Table, Player_Stats, Fixtures_Results, and update_google_sheet is
\* never called for a dataset that is None: such a tab has no line yet or
\* the line full_update logs in place of the call.
C17_ExtractThenPublish ==
    prog = "main" =>
        /\ (\E w \in WsNames : report[w].kind # "none") =>
              /\ \A u \in Urls : Len(http[u]) = 1
              /\ fu \in {"update_player", "update_fixtures", "return"}
        /\ report[WsPlayer].kind # "none" => report[WsTable].kind # "none"
        /\ report[WsFixtures].kind # "none" => report[WsPlayer].kind # "none"
        /\ \A w \in WsNames :
              Dataset(w) = None => report[w].kind \in {"none", "skipped"}

\* C17: League_Table written, Player_Stats passed over because its
\* extraction returned None, Fixtures_Results extracted and still to come
C17_Witness ==
    /\ prog = "main"
    /\ fu = "update_fixtures"
    /\ report[WsTable].kind = "updated"
    /\ player_data = None
    /\ report[WsPlayer].kind = "skipped"
    /\ fixtures_data # None
    /\ report[WsFixtures].kind = "none"

(***************************************************************************)
(* The lifecycle of the process.                                           *)
(***************************************************************************)
\* main.py:369-386: the steps of the main thread, the only thread that is not
\* a daemon; the status page is answered by the server thread (do_GET)
MainThread ==
    \/ main
    \/ run_once
    \/ start_scheduler
    \/ full_update_test
    \/ full_update_get_table
    \/ full_update_get_player
    \/ full_update_get_fixtures
    \/ full_update_table
    \/ full_update_player
    \/ full_update_fixtures
    \/ full_update_return
    \/ run_pending
    \/ run_job
    \/ sleep

\* python main.py, with an interpreter that keeps executing the main thread
\* and with requests that are answered
FairSpec == Init /\ [][Next]_vars /\ WF_vars(MainThread)

\* what holds of every state of a development process (neither RENDER nor
\* RAILWAY_ENVIRONMENT set): at most one full_update, no job, no server,
\* never the scheduler, and exactly one full_update once it has exited
C18_Development ==
    /\ runs <= 1
    /\ jobs = {}
    /\ ~webThread
    /\ pc \notin {"start_scheduler", "run_pending", "run_jobs", "sleep", "crashed"}
    /\ pc = "exit" => runs = 1

\* what holds of every state of a production process: it never exits, the
\* first full_update is the one start_scheduler calls, and a job runs only
\* after it
C18_Production ==
    /\ pc \notin {"run_once", "exit", "crashed"}
    /\ (pc = "full_update" /\ runs = 1) => caller = "start_scheduler"
    /\ (pc = "full_update" /\ caller = "job") => runs >= 2
    /\ pc \in {"run_pending", "run_jobs", "sleep"} => runs >= 1 /\ jobs = Jobs
    /\ pending > 0 => runs >= 1

\* C18: when neither RENDER nor RAILWAY_ENVIRONMENT is set, exactly one
\* full_update is executed and the process then terminates; when either is
\* set, one full_update is executed at once, before any scheduled job, and
\* the scheduler loop then never terminates (it sleeps again and again),
\* even when every run fails.
C18_Lifecycle ==
    /\ [](IF production THEN C18_Production ELSE C18_Development)
    /\ (~production /\ pc = "main") ~> (pc = "exit" /\ runs = 1)
    /\ (production /\ pc = "main") ~> (pc = "run_pending" /\ runs = 1)
    /\ production => []<>(pc = "sleep")

\* a production process asleep in the scheduler loop after two updates that
\* both failed at the connection test
C18_Witness ==
    /\ production
    /\ gc = NoneVal
    /\ runs >= 2
    /\ pc = "sleep"

============================================================================
